---- MODULE Spec2Model ----
(***************************************************************************)
(* Payment reconciliation API: the record store (merchants, orders,        *)
(* payments), the create operations, the reconciliation run and the two    *)
(* read-only views, modelled from app/main.py and app/models/db_schema.py. *)
(*                                                                         *)
(* Amounts are integers: a request carries thousandths of a currency unit  *)
(* (the request field is a float), a stored record carries hundredths (the *)
(* column is Numeric(10, 2)).  Dates are day numbers.                      *)
(***************************************************************************)
EXTENDS Integers, Sequences, FiniteSets, TLC

\* ------------------------------------------------------------------ bounds

\* At most this many rows of the orders and payments tables together were
\* created from a request that differs from the reference requests below.
MaxOffReference == 1

\* ------------------------------------------------------------ input domains

\* Merchant business identifiers a request may name.
MerchantIds == {"M1", "M2"}

\* Merchant order identifiers a request may name.
MerchantOrderIds == {"ORDER_001", "ORDER_002"}

\* The merchant order identifiers of the requests that overlap.
OverlapOrderIds == {"ORDER_001"}

\* Request amounts in thousandths: 99.990, 100.000 and 100.004.
Amounts == {99990, 100000, 100004}

\* Dates as day numbers: day 0, three days later, four days later.
Dates == {0, 3, 4}

\* OrderStatus and PaymentStatus: the same four values.
OrderStatus == {"pending", "completed", "failed", "reconciled"}
PaymentStatus == {"pending", "completed", "failed", "reconciled"}

\* The date window of rule 4: `if date_diff > 3: continue`.
DateWindow == 3

\* The reference requests: a completed order of merchant M1 over 100.00 on day
\* 0, and a completed payment of M1 over 100.00 three days later, the last day
\* of the date window.
ReferenceOrder ==
    [merchant_id |-> "M1", amount |-> 100000, order_date |-> 0, status |-> "completed"]
ReferencePayment ==
    [merchant_id |-> "M1", amount |-> 100000, payment_date |-> 3, status |-> "completed"]

\* A request differs from the reference in at most one of the given fields.
NearReference(req, ref, fields) ==
    \A f, g \in fields : (req[f] # ref[f] /\ req[g] # ref[g]) => f = g

\* The request bodies the model submits (OrderCreate, PaymentCreate,
\* MerchantCreate): bodies the schemas accept.
OrderCreate ==
    {req \in [merchant_id : MerchantIds, merchant_order_id : MerchantOrderIds,
              amount : Amounts, order_date : Dates, status : OrderStatus] :
        NearReference(req, ReferenceOrder,
                      {"merchant_id", "amount", "order_date", "status"})}
PaymentCreate ==
    {req \in [merchant_id : MerchantIds, merchant_order_id : MerchantOrderIds,
              amount : Amounts, payment_date : Dates, status : PaymentStatus] :
        NearReference(req, ReferencePayment,
                      {"merchant_id", "amount", "payment_date", "status"})}
MerchantCreate == [merchant_id : MerchantIds]

\* ------------------------------------------------------------------ state

\* Database sessions (one per request in flight, get_db).
Sessions == {1, 2}

VARIABLES
    merchants,   \* merchants table: sequence of rows in insertion order
    orders,      \* orders table
    payments,    \* payments table
    pc,          \* pc[s]: where session s is in its reconciliation request
    sess,        \* sess[s]: the objects the run of session s holds in memory
    response,    \* the response of the request that completed last
    before,      \* history: the tables as they were when that request began
    transitioned \* history: the ids of the rows a committed run set to reconciled

vars == <<merchants, orders, payments, pc, sess, response, before, transitioned>>

\* -------------------------------------------------------------- the store

\* The tables, as one value.
Store == [merchants |-> merchants, orders |-> orders, payments |-> payments]

\* Range of a sequence.
Range(seq) == {seq[i] : i \in 1..Len(seq)}

\* Numeric(10, 2): a request amount (thousandths) is stored rounded half up to
\* hundredths.
ToNumeric(amount) == (amount + 5) \div 10

\* Mutant of MerchantsNamed: the query has no filter, any merchant is found.
MerchantsListed(merchant_id) == Range(merchants)

\* db.query(Merchant).filter(Merchant.merchant_id == merchant_id).first():
\* the rows found, at most one because merchant_id is unique.
MerchantsNamed(merchant_id) == {m \in Range(merchants) : m.merchant_id = merchant_id}

\* Every order in which a query without ORDER BY may return the rows it found.
ReadOrders(seq) ==
    LET n == Len(seq)
        Bijections == {f \in [1..n -> 1..n] : \A i, j \in 1..n : f[i] = f[j] => i = j}
    IN  {[i \in 1..n |-> seq[f[i]]] : f \in Bijections}

\* Mutant of CompletedOrders: the filter lets reconciled orders through.
CompletedOrReconciledOrders ==
    SelectSeq(orders, LAMBDA o : o.status \in {"completed", "reconciled"})

\* db.query(Order).filter(Order.status == OrderStatus.completed).all()
CompletedOrders == SelectSeq(orders, LAMBDA o : o.status = "completed")

\* Mutant of CompletedPayments: the completed payments for which no completed
\* order has the same merchant order id (a filter by matchability).
CompletedPaymentsWithoutOrder ==
    SelectSeq(payments, LAMBDA p :
        /\ p.status = "completed"
        /\ \A i \in 1..Len(orders) :
              ~ (/\ orders[i].status = "completed"
                 /\ orders[i].merchant_order_id = p.merchant_order_id))

\* db.query(Payment).filter(Payment.status == PaymentStatus.completed).all()
CompletedPayments == SelectSeq(payments, LAMBDA p : p.status = "completed")

\* ------------------------------------------------------------- responses

\* ReconciliationResult with nothing in it.
EmptyResult ==
    [matched_count |-> 0, matched_pairs |-> << >>,
     unmatched_orders |-> << >>, unmatched_payments |-> << >>]

\* ReconciliationReport with nothing in it.
EmptyReport ==
    [total_reconciled_amount |-> 0, total_reconciled_count |-> 0,
     total_unmatched_orders |-> 0, total_unmatched_payments |-> 0,
     unmatched_orders_amount |-> 0, unmatched_payments_amount |-> 0,
     merchants_summary |-> {}]

\* A response: the operation, the HTTP status code, and the body the operation
\* returns (the other bodies stay empty).  Three fields are history: stage is
\* the statement of the handler that raised ("" when none did), repeat tells
\* that the request began right after the response of a successful Reconcile,
\* and doubled is the matched_count of a successful run that returned a pair
\* this run returns too (0 when there is none).
Response(op, code, stage) ==
    [op |-> op, code |-> code, stage |-> stage, repeat |-> FALSE, doubled |-> 0,
     created |-> << >>,
     result |-> EmptyResult, report |-> EmptyReport,
     unmatched_orders |-> << >>, unmatched_payments |-> << >>]

\* No request is in flight.
Quiet == \A s \in Sessions : pc[s] = "idle"

\* get_db: a request gets a new session; the model numbers the sessions in
\* flight from 1, in the order in which their requests began.
NewSession(s) ==
    /\ pc[s] = "idle"
    /\ \A t \in Sessions : t < s => pc[t] # "idle"

\* A session that holds nothing: no object read, no pending row, no snapshot.
\* request and merchant are the body and the merchant of a create in flight,
\* snapshot is the consistent read view of the session's transaction, totals
\* the six totals a report in flight has computed.  before, repeat and doubled
\* are history.
NoObjects ==
    [orders |-> << >>, payments |-> << >>, matched_pairs |-> << >>,
     matched_order_ids |-> {}, matched_payment_ids |-> {}, before |-> << >>,
     repeat |-> FALSE, doubled |-> 0,
     request |-> << >>, merchant |-> << >>, snapshot |-> << >>, totals |-> << >>]

Init ==
    /\ merchants = << >>
    /\ orders = << >>
    /\ payments = << >>
    /\ pc = [s \in Sessions |-> "idle"]
    /\ sess = [s \in Sessions |-> NoObjects]
    /\ response = Response("none", 0, "")
    /\ before = Store
    /\ transitioned = [orders |-> {}, payments |-> {}]

\* ------------------------------------------------------ create operations

\* The number of rows created from a request off the reference: rows that are
\* reconciled by a run were created completed.
OffReferenceRows ==
    LET m1 == {m.id : m \in MerchantsNamed(ReferenceOrder.merchant_id)}
        off_orders == {o \in Range(orders) :
            \/ o.merchant_id \notin m1
            \/ o.amount # ToNumeric(ReferenceOrder.amount)
            \/ o.order_date # ReferenceOrder.order_date
            \/ o.status \notin {"completed", "reconciled"}
            \/ o.status = "reconciled" /\ o.id \notin transitioned.orders}
        off_payments == {p \in Range(payments) :
            \/ p.merchant_id \notin m1
            \/ p.amount # ToNumeric(ReferencePayment.amount)
            \/ p.payment_date # ReferencePayment.payment_date
            \/ p.status \notin {"completed", "reconciled"}
            \/ p.status = "reconciled" /\ p.id \notin transitioned.payments}
    IN  Cardinality(off_orders) + Cardinality(off_payments)

\* The model's bound on the rows it inserts.
WithinBounds == OffReferenceRows <= MaxOffReference

\* POST /merchants
create_merchant(req) ==
    /\ UNCHANGED <<orders, payments, pc, sess, transitioned>>
    /\ before' = Store
    /\ IF MerchantsNamed(req.merchant_id) # {}
       THEN /\ response' = Response("CreateMerchant", 409, "")
            /\ UNCHANGED merchants
       ELSE \/ /\ merchants' = Append(merchants,
                        [id |-> Len(merchants) + 1, merchant_id |-> req.merchant_id])
               /\ response' = [Response("CreateMerchant", 201, "") EXCEPT
                        !.created = <<merchants'[Len(merchants')]>>]
            \/ /\ response' = Response("CreateMerchant", 500, "commit")
               /\ UNCHANGED merchants

\* The row an order request becomes: Order(merchant_id=merchant.id, ...).
OrderRow(req, merchant, id) ==
    [id |-> id, merchant_id |-> merchant.id,
     merchant_order_id |-> req.merchant_order_id,
     amount |-> ToNumeric(req.amount), order_date |-> req.order_date,
     status |-> req.status]

\* POST /orders, for the requests that name this merchant and this order id:
\* the other fields of the request matter only when the row is inserted.
create_order(merchant_id, merchant_order_id) ==
    /\ UNCHANGED <<merchants, payments, pc, sess, transitioned>>
    /\ before' = Store
    /\ IF MerchantsNamed(merchant_id) = {}
       THEN /\ response' = Response("CreateOrder", 404, "")
            /\ UNCHANGED orders
       ELSE IF \E o \in Range(orders) : o.merchant_order_id = merchant_order_id
       THEN \* IntegrityError on the unique merchant_order_id: rollback, 400
            /\ response' = Response("CreateOrder", 400, "commit")
            /\ UNCHANGED orders
       ELSE \/ /\ \E req \in OrderCreate, merchant \in MerchantsNamed(merchant_id) :
                    /\ req.merchant_id = merchant_id
                    /\ req.merchant_order_id = merchant_order_id
                    /\ orders' = Append(orders, OrderRow(req, merchant, Len(orders) + 1))
               /\ WithinBounds'
               /\ response' = [Response("CreateOrder", 201, "") EXCEPT
                        !.created = <<orders'[Len(orders')]>>]
            \/ /\ response' = Response("CreateOrder", 500, "commit")
               /\ UNCHANGED orders

\* The row a payment request becomes: Payment(merchant_id=merchant.id, ...).
PaymentRow(req, merchant, id) ==
    [id |-> id, merchant_id |-> merchant.id,
     merchant_order_id |-> req.merchant_order_id,
     amount |-> ToNumeric(req.amount), payment_date |-> req.payment_date,
     status |-> req.status]

\* POST /payments, for the requests that name this merchant and this order id.
create_payment(merchant_id, merchant_order_id) ==
    /\ UNCHANGED <<merchants, orders, pc, sess, transitioned>>
    /\ before' = Store
    /\ IF MerchantsNamed(merchant_id) = {}
       THEN /\ response' = Response("CreatePayment", 404, "")
            /\ UNCHANGED payments
       ELSE IF \E p \in Range(payments) : p.merchant_order_id = merchant_order_id
       THEN \* IntegrityError on the unique merchant_order_id: rollback, 400
            /\ response' = Response("CreatePayment", 400, "commit")
            /\ UNCHANGED payments
       ELSE \/ /\ \E req \in PaymentCreate, merchant \in MerchantsNamed(merchant_id) :
                    /\ req.merchant_id = merchant_id
                    /\ req.merchant_order_id = merchant_order_id
                    /\ payments' = Append(payments,
                                          PaymentRow(req, merchant, Len(payments) + 1))
               /\ WithinBounds'
               /\ response' = [Response("CreatePayment", 201, "") EXCEPT
                        !.created = <<payments'[Len(payments')]>>]
            \/ /\ response' = Response("CreatePayment", 500, "commit")
               /\ UNCHANGED payments

\* ------------------------------------------------------- matching engine

\* `if payment.id in matched_payment_ids: continue`
AlreadyMatched(payment, matched_payment_ids) == payment.id \in matched_payment_ids

\* Mutant of SameOrderAndMerchant: the merchant order ids are not compared, an
\* order has every payment of its merchant as a candidate.
SameMerchant(order, payment) == ~ (payment.merchant_id # order.merchant_id)

\* Rules 1 and 2: the payment is not skipped for its order id or its merchant.
SameOrderAndMerchant(order, payment) ==
    ~ (\/ payment.merchant_order_id # order.merchant_order_id
       \/ payment.merchant_id # order.merchant_id)

Abs(x) == IF x < 0 THEN -x ELSE x

\* Mutant of SameAmount: amounts within one hundredth pass.
SameAmountWithTolerance(order, payment) == Abs(payment.amount - order.amount) <= 1

\* Rule 3: the payment is not skipped for its amount.
SameAmount(order, payment) == ~ (payment.amount # order.amount)

\* Mutant of WithinDateWindow: a difference of exactly 3 days is skipped.
WithinDateWindowExclusive(order, payment) ==
    ~ (Abs(payment.payment_date - order.order_date) >= DateWindow)

\* Rule 4: the payment is not skipped for its date.  order_date and
\* payment_date are never None (nullable=False, required by the schemas), so
\* the guard `if order.order_date and payment.payment_date` is always taken.
WithinDateWindow(order, payment) ==
    ~ (Abs(payment.payment_date - order.order_date) > DateWindow)

\* Mutant of IsMatch: the first two guards of the loop body are missing, a
\* payment is matched on merchant, amount and date alone.
IsMatchWithoutGuards(order, payment, matched_payment_ids) ==
    /\ payment.merchant_id = order.merchant_id
    /\ SameAmount(order, payment)
    /\ WithinDateWindow(order, payment)

\* The body of the inner loop reaches "MATCH FOUND" for this payment.
IsMatch(order, payment, matched_payment_ids) ==
    /\ ~ AlreadyMatched(payment, matched_payment_ids)
    /\ SameOrderAndMerchant(order, payment)
    /\ SameAmount(order, payment)
    /\ WithinDateWindow(order, payment)

\* `for payment in payments: ... break`: the index of the first payment, from
\* index j on, that the inner loop matches with the order; 0 when there is none.
RECURSIVE FirstMatch(_, _, _, _)
FirstMatch(order, ps, j, matched_payment_ids) ==
    IF j > Len(ps) THEN 0
    ELSE IF IsMatch(order, ps[j], matched_payment_ids) THEN j
    ELSE FirstMatch(order, ps, j + 1, matched_payment_ids)

\* MatchedPair(order_id=order.id, payment_id=payment.id, ...)
MatchedPair(order, payment) ==
    [order_id |-> order.id, payment_id |-> payment.id,
     merchant_order_id |-> order.merchant_order_id, amount |-> order.amount]

\* Mutant of MatchOrders: a pair found is put in front of matched_pairs.
RECURSIVE MatchOrdersPrepending(_, _)
MatchOrdersPrepending(run, i) ==
    IF i > Len(run.orders) THEN run
    ELSE LET order == run.orders[i]
             j == FirstMatch(order, run.payments, 1, run.matched_payment_ids)
         IN  IF j = 0 THEN MatchOrdersPrepending(run, i + 1)
             ELSE MatchOrdersPrepending(
                    [run EXCEPT
                       !.orders[i].status = "reconciled",
                       !.payments[j].status = "reconciled",
                       !.matched_pairs = <<MatchedPair(order, run.payments[j])>> \o @,
                       !.matched_order_ids = @ \cup {order.id},
                       !.matched_payment_ids = @ \cup {run.payments[j].id}],
                    i + 1)

\* `for order in orders:` from index i on; run holds the session's objects and
\* the three tracking collections.
RECURSIVE MatchOrders(_, _)
MatchOrders(run, i) ==
    IF i > Len(run.orders) THEN run
    ELSE LET order == run.orders[i]
             j == FirstMatch(order, run.payments, 1, run.matched_payment_ids)
         IN  IF j = 0 THEN MatchOrders(run, i + 1)
             ELSE MatchOrders(
                    [run EXCEPT
                       !.orders[i].status = "reconciled",
                       !.payments[j].status = "reconciled",
                       !.matched_pairs = Append(@, MatchedPair(order, run.payments[j])),
                       !.matched_order_ids = @ \cup {order.id},
                       !.matched_payment_ids = @ \cup {run.payments[j].id}],
                    i + 1)

\* Mutant of Flush: the status updates are not written.
FlushNothing(table, objects) == table

\* db.commit() flushes the objects whose status the run set: each becomes an
\* UPDATE of the row with that primary key.
Flush(table, objects) ==
    [i \in 1..Len(table) |->
        IF \E obj \in Range(objects) :
              obj.id = table[i].id /\ obj.status = "reconciled"
        THEN [table[i] EXCEPT !.status = "reconciled"]
        ELSE table[i]]

\* Mutant of Rollback: the updates flushed before the commit raised stay.
RollbackKeepsFlushed(table, objects) == Flush(table, objects)

\* db.rollback() after db.commit() raised: the updates of the session's objects
\* are discarded and the table is what it was.
Rollback(table, objects) == table

\* Mutant of Unmatched: the comprehension has no condition.
UnmatchedUnfiltered(objects, matched_ids) ==
    [i \in 1..Len(objects) |-> objects[i].merchant_order_id]

\* `[o.merchant_order_id for o in orders if o.id not in matched_order_ids]`
Unmatched(objects, matched_ids) ==
    LET left == SelectSeq(objects, LAMBDA o : o.id \notin matched_ids)
    IN  [i \in 1..Len(left) |-> left[i].merchant_order_id]

\* History: a run in flight notes the matched_count of a successful run whose
\* response returns a payment that it holds in a pair of its own.
Noted(t, resp) ==
    IF /\ resp.op = "Reconcile" /\ resp.code = 200
       /\ \E i \in 1..Len(resp.result.matched_pairs) :
             resp.result.matched_pairs[i].payment_id \in sess[t].matched_payment_ids
    THEN [sess[t] EXCEPT !.doubled = resp.result.matched_count]
    ELSE sess[t]

\* The request ends: its session is closed and its response is the last one.
\* The sessions that stay in flight keep their order and are numbered from 1
\* again.
Respond(s, resp, was) ==
    /\ pc' = [t \in Sessions |->
                IF t < s THEN pc[t]
                ELSE IF t + 1 \in Sessions THEN pc[t + 1] ELSE "idle"]
    /\ sess' = [t \in Sessions |->
                IF t < s THEN Noted(t, resp)
                ELSE IF t + 1 \in Sessions THEN Noted(t + 1, resp) ELSE NoObjects]
    /\ response' = resp
    /\ before' = was

\* The response last returned is that of a successful Reconcile.
FollowsReconcile == response.op = "Reconcile" /\ response.code = 200

\* POST /reconciliation, queries 1 and 2 and the matching loop (in memory).
reconcile_read(s) ==
    /\ NewSession(s)
    /\ UNCHANGED <<merchants, orders, payments, transitioned>>
    /\ \/ /\ \E os \in ReadOrders(CompletedOrders), ps \in ReadOrders(CompletedPayments) :
                sess' = [sess EXCEPT ![s] =
                    MatchOrders([NoObjects EXCEPT !.orders = os, !.payments = ps,
                                                  !.before = Store,
                                                  !.repeat = FollowsReconcile], 1)]
          /\ pc' = [pc EXCEPT ![s] = "matched"]
          /\ response' = Response("none", 0, "")
          /\ before' = Store
       \/ \* a query raises: rollback, 500
          Respond(s, [Response("Reconcile", 500, "query") EXCEPT
                         !.repeat = FollowsReconcile], Store)

\* Mutant of RowsMatched: the UPDATE also compares the status the object had
\* when it was read (an optimistic check).
RowsMatchedIfCompleted(table, obj) ==
    \E i \in 1..Len(table) : table[i].id = obj.id /\ table[i].status = "completed"

\* `UPDATE ... SET status = 'reconciled' WHERE id = :id` matches a row: the
\* models have no version column, the row is found by its primary key alone.
RowsMatched(table, obj) == \E i \in 1..Len(table) : table[i].id = obj.id

\* The flush raises StaleDataError: the UPDATE of an object whose status the
\* run set matched no row.
StaleData(table, objects) ==
    \E obj \in Range(objects) : obj.status = "reconciled" /\ ~ RowsMatched(table, obj)

\* POST /reconciliation, db.commit().
reconcile_commit(s) ==
    /\ pc[s] = "matched"
    /\ UNCHANGED merchants
    /\ IF StaleData(orders, sess[s].orders) \/ StaleData(payments, sess[s].payments)
       THEN /\ orders' = Rollback(orders, sess[s].orders)
            /\ payments' = Rollback(payments, sess[s].payments)
            /\ UNCHANGED transitioned
            /\ Respond(s, [Response("Reconcile", 500, "stale") EXCEPT
                              !.repeat = sess[s].repeat], sess[s].before)
       ELSE \/ /\ orders' = Flush(orders, sess[s].orders)
               /\ payments' = Flush(payments, sess[s].payments)
               /\ transitioned' =
                     [orders |-> transitioned.orders \cup sess[s].matched_order_ids,
                      payments |-> transitioned.payments \cup sess[s].matched_payment_ids]
               /\ pc' = [pc EXCEPT ![s] = "committed"]
               /\ UNCHANGED <<sess, response, before>>
            \/ \* the commit raises: rollback, 500
               /\ orders' = Rollback(orders, sess[s].orders)
               /\ payments' = Rollback(payments, sess[s].payments)
               /\ UNCHANGED transitioned
               /\ Respond(s, [Response("Reconcile", 500, "commit") EXCEPT
                                 !.repeat = sess[s].repeat], sess[s].before)

\* POST /reconciliation, from the unmatched lists to the return.  The commit
\* expired the session's objects, so reading them queries the store again.
reconcile_return(s) ==
    /\ pc[s] = "committed"
    /\ UNCHANGED <<merchants, orders, payments, transitioned>>
    /\ \/ Respond(s,
                  [Response("Reconcile", 200, "") EXCEPT
                     !.repeat = sess[s].repeat,
                     !.doubled = sess[s].doubled,
                     !.result =
                      [matched_count |-> Len(sess[s].matched_pairs),
                       matched_pairs |-> sess[s].matched_pairs,
                       unmatched_orders |->
                           Unmatched(sess[s].orders, sess[s].matched_order_ids),
                       unmatched_payments |->
                           Unmatched(sess[s].payments, sess[s].matched_payment_ids)]],
                  sess[s].before)
       \/ \* reloading an expired object raises: rollback (of nothing), 500
          Respond(s, [Response("Reconcile", 500, "result") EXCEPT
                         !.repeat = sess[s].repeat], sess[s].before)

\* ------------------------------------------------------- read-only views

\* Python's None, the value of SUM(amount) over no rows (no amount is negative).
None == -1

\* The sum of the amounts of rows; a total is in hundredths: float() of a sum
\* of two-decimal amounts.
RECURSIVE SumAmounts(_)
SumAmounts(rows) ==
    IF rows = << >> THEN 0 ELSE Head(rows).amount + SumAmounts(Tail(rows))

\* func.sum(amount) over the rows of a query: NULL when the query has no row.
SqlSum(rows) == IF rows = << >> THEN None ELSE SumAmounts(rows)

\* Mutant of OrZero: the value is passed on as the query gave it.
OrNothing(value) == value

\* `value or 0`: None, and 0, read as 0.
OrZero(value) == IF value = None THEN 0 ELSE value

\* The rows of a table with the given status.
WithStatus(table, status) == SelectSeq(table, LAMBDA r : r.status = status)

\* The rows of a merchant among rows.
OfMerchant(rows, merchant_id) == SelectSeq(rows, LAMBDA r : r.merchant_id = merchant_id)

\* Queries 1 to 3 and their `or 0`: the six totals, over the tables of st.
Totals(st) ==
    [total_reconciled_amount |-> OrZero(SqlSum(WithStatus(st.payments, "reconciled"))),
     total_reconciled_count |-> OrZero(Len(WithStatus(st.payments, "reconciled"))),
     total_unmatched_orders |-> OrZero(Len(WithStatus(st.orders, "completed"))),
     total_unmatched_payments |-> OrZero(Len(WithStatus(st.payments, "completed"))),
     unmatched_orders_amount |-> OrZero(SqlSum(WithStatus(st.orders, "completed"))),
     unmatched_payments_amount |-> OrZero(SqlSum(WithStatus(st.payments, "completed")))]

\* A GROUP BY merchant_id query read into a dict: one entry per merchant that
\* has a row among rows, with the count and the summed amount of its rows.
GroupByMerchant(rows) ==
    {[merchant_id |-> m,
      count |-> Len(OfMerchant(rows, m)),
      amount |-> OrZero(SqlSum(OfMerchant(rows, m)))] :
     m \in {r.merchant_id : r \in Range(rows)}}

\* The keys of such a dict.
Keys(dict) == {entry.merchant_id : entry \in dict}

\* dict.get(merchant_id, default), for one field of the entry.
Get(dict, merchant_id, field, default) ==
    IF merchant_id \in Keys(dict)
    THEN (CHOOSE entry \in dict : entry.merchant_id = merchant_id)[field]
    ELSE default

\* Mutant of AllMerchantIds: the merchants of the reconciled payments alone.
ReconciledMerchantIds(reconciled_dict, unmatched_orders_dict, unmatched_payments_dict) ==
    Keys(reconciled_dict)

\* `set(reconciled_dict.keys()) | set(unmatched_orders_dict.keys()) | ...`
AllMerchantIds(reconciled_dict, unmatched_orders_dict, unmatched_payments_dict) ==
    Keys(reconciled_dict) \cup Keys(unmatched_orders_dict)
        \cup Keys(unmatched_payments_dict)

\* Queries 4 to 6 and the merge, over the tables of st: one row per merchant of
\* any of the three groupings.  The list is built from a set, its order is
\* arbitrary: the model keeps the set of its rows.
MerchantsSummaryOf(st) ==
    LET reconciled_dict == GroupByMerchant(WithStatus(st.payments, "reconciled"))
        unmatched_orders_dict == GroupByMerchant(WithStatus(st.orders, "completed"))
        unmatched_payments_dict == GroupByMerchant(WithStatus(st.payments, "completed"))
    IN  {[merchant_id |-> m,
          reconciled_count |-> Get(reconciled_dict, m, "count", 0),
          reconciled_amount |-> Get(reconciled_dict, m, "amount", 0),
          unmatched_orders |-> Get(unmatched_orders_dict, m, "count", 0),
          unmatched_payments |-> Get(unmatched_payments_dict, m, "count", 0)] :
         m \in AllMerchantIds(reconciled_dict, unmatched_orders_dict,
                              unmatched_payments_dict)}

\* The merchants summary of the store as it is.
MerchantsSummary == MerchantsSummaryOf(Store)

\* ReconciliationReport(...) of six totals and a merchants summary.
ReportOf(totals, merchants_summary) ==
    [total_reconciled_amount |-> totals.total_reconciled_amount,
     total_reconciled_count |-> totals.total_reconciled_count,
     total_unmatched_orders |-> totals.total_unmatched_orders,
     total_unmatched_payments |-> totals.total_unmatched_payments,
     unmatched_orders_amount |-> totals.unmatched_orders_amount,
     unmatched_payments_amount |-> totals.unmatched_payments_amount,
     merchants_summary |-> merchants_summary]

\* Mutant of Report: the reconciled totals are taken over the orders table.
ReportOverOrders ==
    [total_reconciled_amount |-> SumAmounts(WithStatus(orders, "reconciled")),
     total_reconciled_count |-> Len(WithStatus(orders, "reconciled")),
     total_unmatched_orders |-> Len(WithStatus(orders, "completed")),
     total_unmatched_payments |-> Len(WithStatus(payments, "completed")),
     unmatched_orders_amount |-> SumAmounts(WithStatus(orders, "completed")),
     unmatched_payments_amount |-> SumAmounts(WithStatus(payments, "completed")),
     merchants_summary |-> MerchantsSummary]

\* ReconciliationReport(...) of queries 1 to 6 on the store as it is.
Report == ReportOf(Totals(Store), MerchantsSummary)

\* float(None) raises TypeError: an amount of the report is None.
FloatRaises(report) ==
    \/ None \in {report.total_reconciled_amount, report.unmatched_orders_amount,
                 report.unmatched_payments_amount}
    \/ \E row \in report.merchants_summary : row.reconciled_amount = None

\* GET /reconciliation/report
get_reconciliation_report ==
    /\ UNCHANGED <<merchants, orders, payments, pc, sess, transitioned>>
    /\ before' = Store
    /\ LET report == Report
       IN  IF FloatRaises(report)
           THEN response' = Response("BuildReport", 500, "float")
           ELSE \/ response' = [Response("BuildReport", 200, "") EXCEPT
                                   !.report = report]
                \/ response' = Response("BuildReport", 500, "query")

\* Mutant of get_discrepancies: the view marks the payments it lists as failed.
get_discrepancies_marking ==
    /\ UNCHANGED <<merchants, orders, pc, sess, transitioned>>
    /\ before' = Store
    /\ payments' = [i \in 1..Len(payments) |->
            IF payments[i].status = "completed"
            THEN [payments[i] EXCEPT !.status = "failed"] ELSE payments[i]]
    /\ \E os \in ReadOrders(CompletedOrders), ps \in ReadOrders(CompletedPayments) :
            response' = [Response("ListDiscrepancies", 200, "") EXCEPT
                            !.unmatched_orders = os, !.unmatched_payments = ps]

\* GET /discrepancies
get_discrepancies ==
    /\ UNCHANGED <<merchants, orders, payments, pc, sess, transitioned>>
    /\ before' = Store
    /\ \/ \E os \in ReadOrders(CompletedOrders), ps \in ReadOrders(CompletedPayments) :
            response' = [Response("ListDiscrepancies", 200, "") EXCEPT
                            !.unmatched_orders = os, !.unmatched_payments = ps]
       \/ response' = Response("ListDiscrepancies", 500, "query")

\* --------------------------------------------- requests that overlap
\*
\* The handlers again, each cut where another request's commit can fall
\* between two of its statements: between a query and the commit of a create,
\* between the queries of a view.  (The run is cut already: reconcile_read,
\* reconcile_commit, reconcile_return.)

\* A request begins: it gets a session, and the last response is forgotten.
Begin(s, at, objects) ==
    /\ NewSession(s)
    /\ pc' = [pc EXCEPT ![s] = at]
    /\ sess' = [sess EXCEPT ![s] = objects]
    /\ response' = Response("none", 0, "")
    /\ before' = Store
    /\ UNCHANGED <<merchants, orders, payments, transitioned>>

\* Mutant of UniqueViolation: the column has no unique constraint.
NoConstraint(table, column, value) == FALSE

\* unique=True: the INSERT of a row with this value in this column raises
\* IntegrityError.
UniqueViolation(table, column, value) ==
    \E i \in 1..Len(table) : table[i][column] = value

\* POST /merchants, the query for an existing merchant: 409 when there is one.
create_merchant_query(s, req) ==
    IF MerchantsNamed(req.merchant_id) # {}
    THEN /\ NewSession(s)
         /\ UNCHANGED <<merchants, orders, payments, transitioned>>
         /\ Respond(s, Response("CreateMerchant", 409, ""), Store)
    ELSE Begin(s, "merchant_new", [NoObjects EXCEPT !.request = req])

\* POST /merchants, db.add and db.commit: an IntegrityError is caught by
\* `except Exception`, rollback, 500.
create_merchant_commit(s) ==
    /\ pc[s] = "merchant_new"
    /\ UNCHANGED <<orders, payments, transitioned>>
    /\ IF UniqueViolation(merchants, "merchant_id", sess[s].request.merchant_id)
       THEN /\ UNCHANGED merchants
            /\ Respond(s, Response("CreateMerchant", 500, "integrity"), Store)
       ELSE \/ /\ merchants' = Append(merchants,
                     [id |-> Len(merchants) + 1,
                      merchant_id |-> sess[s].request.merchant_id])
               /\ Respond(s, [Response("CreateMerchant", 201, "") EXCEPT
                                 !.created = <<merchants'[Len(merchants')]>>], Store)
            \/ /\ UNCHANGED merchants
               /\ Respond(s, Response("CreateMerchant", 500, "commit"), Store)

\* POST /orders and POST /payments, the lookup of the merchant: 404 when there
\* is none.  The request is kept by its merchant and its order id; its other
\* fields matter only when the row is inserted.
create_lookup(s, op, at, merchant_id, merchant_order_id) ==
    IF MerchantsNamed(merchant_id) = {}
    THEN /\ NewSession(s)
         /\ UNCHANGED <<merchants, orders, payments, transitioned>>
         /\ Respond(s, Response(op, 404, ""), Store)
    ELSE \E merchant \in MerchantsNamed(merchant_id) :
            Begin(s, at, [NoObjects EXCEPT
                            !.request = [merchant_id |-> merchant_id,
                                         merchant_order_id |-> merchant_order_id],
                            !.merchant = merchant])

create_order_lookup(s, merchant_id, merchant_order_id) ==
    create_lookup(s, "CreateOrder", "order_new", merchant_id, merchant_order_id)

create_payment_lookup(s, merchant_id, merchant_order_id) ==
    create_lookup(s, "CreatePayment", "payment_new", merchant_id, merchant_order_id)

\* POST /orders, db.add and db.commit: IntegrityError, rollback, 400.
create_order_commit(s) ==
    /\ pc[s] = "order_new"
    /\ UNCHANGED <<merchants, payments, transitioned>>
    /\ IF UniqueViolation(orders, "merchant_order_id", sess[s].request.merchant_order_id)
       THEN /\ UNCHANGED orders
            /\ Respond(s, Response("CreateOrder", 400, "commit"), Store)
       ELSE \/ /\ \E req \in OrderCreate :
                    /\ req.merchant_id = sess[s].request.merchant_id
                    /\ req.merchant_order_id = sess[s].request.merchant_order_id
                    /\ orders' = Append(orders,
                            OrderRow(req, sess[s].merchant, Len(orders) + 1))
               /\ WithinBounds'
               /\ Respond(s, [Response("CreateOrder", 201, "") EXCEPT
                                 !.created = <<orders'[Len(orders')]>>], Store)
            \/ /\ UNCHANGED orders
               /\ Respond(s, Response("CreateOrder", 500, "commit"), Store)

\* POST /payments, db.add and db.commit: IntegrityError, rollback, 400.
create_payment_commit(s) ==
    /\ pc[s] = "payment_new"
    /\ UNCHANGED <<merchants, orders, transitioned>>
    /\ IF UniqueViolation(payments, "merchant_order_id",
                          sess[s].request.merchant_order_id)
       THEN /\ UNCHANGED payments
            /\ Respond(s, Response("CreatePayment", 400, "commit"), Store)
       ELSE \/ /\ \E req \in PaymentCreate :
                    /\ req.merchant_id = sess[s].request.merchant_id
                    /\ req.merchant_order_id = sess[s].request.merchant_order_id
                    /\ payments' = Append(payments,
                            PaymentRow(req, sess[s].merchant, Len(payments) + 1))
               /\ WithinBounds'
               /\ Respond(s, [Response("CreatePayment", 201, "") EXCEPT
                                 !.created = <<payments'[Len(payments')]>>], Store)
            \/ /\ UNCHANGED payments
               /\ Respond(s, Response("CreatePayment", 500, "commit"), Store)

\* Mutant of Snapshot: every query reads the rows committed when it runs.
LatestCommitted(s) == Store

\* The rows a query of the session reads: the session's transaction reads a
\* consistent snapshot, taken by its first query (the engine is created with
\* the isolation level of the MySQL server, REPEATABLE READ).
Snapshot(s) == sess[s].snapshot

\* GET /reconciliation/report, queries 1 to 3.
report_totals(s) ==
    \/ Begin(s, "report_totals",
             [NoObjects EXCEPT !.snapshot = Store, !.before = Store,
                               !.totals = Totals(Store)])
    \/ /\ NewSession(s)
       /\ UNCHANGED <<merchants, orders, payments, transitioned>>
       /\ Respond(s, Response("BuildReport", 500, "query"), Store)

\* GET /reconciliation/report, queries 4 to 6, the merge and the return.
report_by_merchant(s) ==
    /\ pc[s] = "report_totals"
    /\ UNCHANGED <<merchants, orders, payments, transitioned>>
    /\ LET report == ReportOf(sess[s].totals, MerchantsSummaryOf(Snapshot(s)))
       IN  IF FloatRaises(report)
           THEN Respond(s, Response("BuildReport", 500, "float"), sess[s].before)
           ELSE \/ Respond(s, [Response("BuildReport", 200, "") EXCEPT
                                  !.report = report], sess[s].before)
                \/ Respond(s, Response("BuildReport", 500, "query"), sess[s].before)

\* GET /discrepancies, the query for the completed orders.
discrepancies_orders(s) ==
    \/ \E os \in ReadOrders(CompletedOrders) :
          Begin(s, "discrepancies_orders",
                [NoObjects EXCEPT !.snapshot = Store, !.before = Store,
                                  !.orders = os])
    \/ /\ NewSession(s)
       /\ UNCHANGED <<merchants, orders, payments, transitioned>>
       /\ Respond(s, Response("ListDiscrepancies", 500, "query"), Store)

\* GET /discrepancies, the query for the completed payments and the return.
discrepancies_payments(s) ==
    /\ pc[s] = "discrepancies_orders"
    /\ UNCHANGED <<merchants, orders, payments, transitioned>>
    /\ \/ \E ps \in ReadOrders(WithStatus(Snapshot(s).payments, "completed")) :
            Respond(s, [Response("ListDiscrepancies", 200, "") EXCEPT
                           !.unmatched_orders = sess[s].orders,
                           !.unmatched_payments = ps], sess[s].before)
       \/ Respond(s, Response("ListDiscrepancies", 500, "query"), sess[s].before)

\* ------------------------------------------------------- specification

\* The requests are served one at a time: a request starts when none is in
\* flight.
Next ==
    \/ Quiet /\ \E req \in MerchantCreate : create_merchant(req)
    \/ Quiet /\ \E m \in MerchantIds, k \in MerchantOrderIds : create_order(m, k)
    \/ Quiet /\ \E m \in MerchantIds, k \in MerchantOrderIds : create_payment(m, k)
    \/ Quiet /\ \E s \in Sessions : reconcile_read(s)
    \/ \E s \in Sessions : reconcile_commit(s)
    \/ \E s \in Sessions : reconcile_return(s)
    \/ Quiet /\ get_reconciliation_report
    \/ Quiet /\ get_discrepancies

Spec == Init /\ [][Next]_vars

\* The requests overlap: a request starts whenever a session is free, and the
\* steps of the requests in flight interleave.
NextConcurrent ==
    \/ \E s \in Sessions, req \in MerchantCreate : create_merchant_query(s, req)
    \/ \E s \in Sessions : create_merchant_commit(s)
    \/ \E s \in Sessions, m \in MerchantIds, k \in OverlapOrderIds :
          create_order_lookup(s, m, k)
    \/ \E s \in Sessions : create_order_commit(s)
    \/ \E s \in Sessions, m \in MerchantIds, k \in OverlapOrderIds :
          create_payment_lookup(s, m, k)
    \/ \E s \in Sessions : create_payment_commit(s)
    \/ \E s \in Sessions : reconcile_read(s)
    \/ \E s \in Sessions : reconcile_commit(s)
    \/ \E s \in Sessions : reconcile_return(s)
    \/ \E s \in Sessions : report_totals(s)
    \/ \E s \in Sessions : report_by_merchant(s)
    \/ \E s \in Sessions : discrepancies_orders(s)
    \/ \E s \in Sessions : discrepancies_payments(s)

SpecConcurrent == Init /\ [][NextConcurrent]_vars

\* ------------------------------------------------------------- properties

\* The row of a table with the given primary key.
RowById(table, id) == CHOOSE r \in Range(table) : r.id = id

\* The last response is the result of a successful reconciliation run.
Reconciled200 == response.op = "Reconcile" /\ response.code = 200

\* The pairs the last response returned, as a set of positions and as rows.
ReturnedPairs == response.result.matched_pairs

\* An order and a payment satisfy the four matching rules, stated on the rows.
SatisfyRules(o, p) ==
    /\ o.merchant_order_id = p.merchant_order_id
    /\ o.merchant_id = p.merchant_id
    /\ o.amount = p.amount
    /\ p.payment_date - o.order_date <= DateWindow
    /\ o.order_date - p.payment_date <= DateWindow

\* C1: no payment id and no order id appears in more than one entry of the
\* matched_pairs of a run, neither in the pairs a run in flight has recorded
\* nor in the pairs a run returned.
PairsOneToOne(pairs) ==
    \A i, j \in 1..Len(pairs) :
        i # j => /\ pairs[i].payment_id # pairs[j].payment_id
                 /\ pairs[i].order_id # pairs[j].order_id

C1_OneToOneMatching ==
    /\ PairsOneToOne(ReturnedPairs)
    /\ \A s \in Sessions : PairsOneToOne(sess[s].matched_pairs)

\* C1 witness: a run returned two pairs.
C1_Witness == Reconciled200 /\ Len(ReturnedPairs) = 2

\* C2: every returned pair is an order and a payment that were completed when
\* the run read them, with the same merchant order id, the same merchant
\* reference, equal amounts and dates at most 3 days apart.
C2_RuleConformance ==
    Reconciled200 =>
        \A i \in 1..Len(ReturnedPairs) :
            LET o == RowById(before.orders, ReturnedPairs[i].order_id)
                p == RowById(before.payments, ReturnedPairs[i].payment_id)
            IN  /\ o.status = "completed"
                /\ p.status = "completed"
                /\ SatisfyRules(o, p)
                /\ ReturnedPairs[i].merchant_order_id = o.merchant_order_id
                /\ ReturnedPairs[i].amount = o.amount

\* C2 witness: a run returned a pair while the store held a completed order of
\* 100.00 and a completed payment of 99.99 for the same order id and merchant,
\* three days apart, and did not pair them.
C2_Witness ==
    /\ Reconciled200
    /\ Len(ReturnedPairs) = 1
    /\ \E o \in Range(before.orders), p \in Range(before.payments) :
          /\ o.status = "completed" /\ p.status = "completed"
          /\ o.merchant_order_id = p.merchant_order_id
          /\ o.merchant_id = p.merchant_id
          /\ o.amount = 10000 /\ p.amount = 9999
          /\ p.payment_date - o.order_date = DateWindow
          /\ RowById(orders, o.id).status = "completed"
          /\ RowById(payments, p.id).status = "completed"

\* C3: a successful run that began right after the response of a successful
\* run returns matched_count = 0 and no pairs, and changed no row.
C3_Idempotence ==
    (Reconciled200 /\ response.repeat) =>
        /\ response.result.matched_count = 0
        /\ ReturnedPairs = << >>
        /\ orders = before.orders
        /\ payments = before.payments

\* C3 witness: such a second run has returned, after a run that had reconciled
\* a pair, and it still found completed rows to scan.
C3_Witness ==
    /\ Reconciled200 /\ response.repeat
    /\ transitioned.orders # {}
    /\ response.result.unmatched_orders # << >>
    /\ response.result.unmatched_payments # << >>

\* A step keeps every reconciled row reconciled.
StaysReconciled(table, table_after) ==
    \A i \in 1..Len(table) :
        table[i].status = "reconciled" =>
            /\ i <= Len(table_after)
            /\ table_after[i].id = table[i].id
            /\ table_after[i].status = "reconciled"

\* The objects a run holds were completed, not reconciled, in the store it read.
ReadsOnlyCompleted(s) ==
    /\ \A obj \in Range(sess[s].orders) :
          RowById(sess[s].before.orders, obj.id).status = "completed"
    /\ \A obj \in Range(sess[s].payments) :
          RowById(sess[s].before.payments, obj.id).status = "completed"

\* C4: a reconciled order or payment is reconciled in every later state, and a
\* run neither reads nor pairs a row that is already reconciled.
C4_ReconciledIsTerminal ==
    /\ [][StaysReconciled(orders, orders') /\ StaysReconciled(payments, payments')]_vars
    /\ [](\A s \in Sessions : pc[s] # "idle" => ReadsOnlyCompleted(s))

\* C4 witness: a run is about to commit a pair while the store holds an order
\* that is already reconciled.
C4_Witness ==
    /\ pc[1] = "matched"
    /\ sess[1].matched_pairs # << >>
    /\ \E o \in Range(orders) : o.status = "reconciled"

\* C5: when the commit of a run fails the caller gets a failure (500) and every
\* row is what it was before the run started.
C5_FailedCommitHasNoEffect ==
    (response.op = "Reconcile" /\ response.stage = "commit") =>
        /\ response.code = 500
        /\ merchants = before.merchants
        /\ orders = before.orders
        /\ payments = before.payments

\* C5 witness: the commit of a run failed although the run had a pair to
\* reconcile.
C5_Witness ==
    /\ response.op = "Reconcile" /\ response.stage = "commit"
    /\ \E o \in Range(orders), p \in Range(payments) :
          o.status = "completed" /\ p.status = "completed" /\ SatisfyRules(o, p)

\* C6: whenever a run returns a failure the store is in its state of before the
\* run (the commit comes after the whole result is built).
C6_FailureLeavesStoreUnchanged ==
    (response.op = "Reconcile" /\ response.code = 500) =>
        /\ orders = before.orders
        /\ payments = before.payments

\* The ids of the returned pair that holds the given order and payment.
IsReturnedPair(o, p) ==
    \E i \in 1..Len(ReturnedPairs) :
        ReturnedPairs[i].order_id = o.id /\ ReturnedPairs[i].payment_id = p.id

\* C7: after a successful run, every completed order and completed payment the
\* run found that satisfy the four rules (dates up to 3 days apart, 3 included)
\* are reconciled and returned together, no such pair remains completed in the
\* store, and a pair 4 days apart is not returned.
C7_MatchableAreReconciled ==
    Reconciled200 =>
        /\ \A o \in Range(before.orders), p \in Range(before.payments) :
              (o.status = "completed" /\ p.status = "completed" /\ SatisfyRules(o, p))
                  => /\ RowById(orders, o.id).status = "reconciled"
                     /\ RowById(payments, p.id).status = "reconciled"
                     /\ IsReturnedPair(o, p)
        /\ \A o \in Range(orders), p \in Range(payments) :
              ~ (o.status = "completed" /\ p.status = "completed" /\ SatisfyRules(o, p))
        /\ \A o \in Range(before.orders), p \in Range(before.payments) :
              Abs(p.payment_date - o.order_date) = DateWindow + 1
                  => ~ IsReturnedPair(o, p)

\* C7 witness: a run returned a pair whose dates are exactly 3 days apart while
\* the store held a completed pair, equal in order id, merchant and amount, 4
\* days apart.
C7_Witness ==
    /\ Reconciled200
    /\ \E o \in Range(before.orders), p \in Range(before.payments) :
          /\ IsReturnedPair(o, p)
          /\ p.payment_date - o.order_date = DateWindow
    /\ \E o \in Range(before.orders), p \in Range(before.payments) :
          /\ o.status = "completed" /\ p.status = "completed"
          /\ o.merchant_order_id = p.merchant_order_id
          /\ o.merchant_id = p.merchant_id
          /\ o.amount = p.amount
          /\ p.payment_date - o.order_date = DateWindow + 1

\* The rows of a table are those of before the run, but for the status of the
\* rows with the given ids, which is reconciled.
SameButReconciled(table, table_before, ids) ==
    /\ Len(table) = Len(table_before)
    /\ \A i \in 1..Len(table) :
          \/ table[i] = table_before[i]
          \/ /\ table_before[i].id \in ids
             /\ table[i] = [table_before[i] EXCEPT !.status = "reconciled"]

\* The store differs from the store of before the last request only in the
\* status of the rows of the returned pairs.
OnlyReturnedPairsChanged ==
    /\ merchants = before.merchants
    /\ SameButReconciled(orders, before.orders,
            {ReturnedPairs[i].order_id : i \in 1..Len(ReturnedPairs)})
    /\ SameButReconciled(payments, before.payments,
            {ReturnedPairs[i].payment_id : i \in 1..Len(ReturnedPairs)})

\* C8: a run changes nothing in the store but the status of the rows of the
\* pairs it returns, and ListDiscrepancies returns the rows that are completed.
C8_ReconcileFrame ==
    /\ response.op = "Reconcile" => OnlyReturnedPairsChanged
    /\ (response.op = "ListDiscrepancies" /\ response.code = 200) =>
          /\ Range(response.unmatched_orders)
                = {o \in Range(orders) : o.status = "completed"}
          /\ Range(response.unmatched_payments)
                = {p \in Range(payments) : p.status = "completed"}

\* C9: a row is reconciled only if a committed run set it so as a member of a
\* matched pair.
C9_OnlyEngineSetsReconciled ==
    /\ \A o \in Range(orders) :
          o.status = "reconciled" => o.id \in transitioned.orders
    /\ \A p \in Range(payments) :
          p.status = "reconciled" => p.id \in transitioned.payments

\* The sum of the amounts of a set of rows.
RECURSIVE AmountOf(_)
AmountOf(rows) ==
    IF rows = {} THEN 0
    ELSE LET r == CHOOSE r \in rows : TRUE IN r.amount + AmountOf(rows \ {r})

\* C10: a report gives the number and the summed amount of the reconciled
\* payments, the number of completed orders and the number of completed
\* payments.
C10_ReportConsistency ==
    (response.op = "BuildReport" /\ response.code = 200) =>
        LET reconciled == {p \in Range(payments) : p.status = "reconciled"}
        IN  /\ response.report.total_reconciled_count = Cardinality(reconciled)
            /\ response.report.total_reconciled_amount = AmountOf(reconciled)
            /\ response.report.total_unmatched_orders
                  = Cardinality({o \in Range(orders) : o.status = "completed"})
            /\ response.report.total_unmatched_payments
                  = Cardinality({p \in Range(payments) : p.status = "completed"})

\* C10 witness: a report over a store with a reconciled payment of 100.00, a
\* completed order and a completed payment, where the reconciled orders are
\* not as many as the reconciled payments.
C10_Witness ==
    /\ response.op = "BuildReport" /\ response.code = 200
    /\ response.report.total_reconciled_count = 1
    /\ response.report.total_reconciled_amount = 10000
    /\ response.report.total_unmatched_orders = 1
    /\ response.report.total_unmatched_payments = 1
    /\ Cardinality({o \in Range(orders) : o.status = "reconciled"}) # 1

\* The last response is a report that was built.
Report200 == response.op = "BuildReport" /\ response.code = 200

\* C11: a report is never refused for an empty grouping, and a total whose
\* grouping holds no record is count 0 and amount 0, never None; on an empty
\* store every count and amount is 0 and merchants_summary is empty.
C11_EmptyGroupingIsZero ==
    /\ response.op = "BuildReport" => response.stage # "float"
    /\ Report200 =>
        LET r == response.report
            no_reconciled == \A p \in Range(payments) : p.status # "reconciled"
            no_orders == \A o \in Range(orders) : o.status # "completed"
            no_payments == \A p \in Range(payments) : p.status # "completed"
        IN  /\ \A f \in DOMAIN r : f # "merchants_summary" => r[f] \in Nat
            /\ no_reconciled =>
                  r.total_reconciled_count = 0 /\ r.total_reconciled_amount = 0
            /\ no_orders =>
                  r.total_unmatched_orders = 0 /\ r.unmatched_orders_amount = 0
            /\ no_payments =>
                  r.total_unmatched_payments = 0 /\ r.unmatched_payments_amount = 0
            /\ (no_reconciled /\ no_orders /\ no_payments) =>
                  r.merchants_summary = {}
            /\ (orders = << >> /\ payments = << >>) => r = EmptyReport

\* C11 witness: a report was built over a store that holds a completed order
\* but no reconciled payment and no completed payment.
C11_Witness ==
    /\ Report200
    /\ response.report.total_unmatched_orders > 0
    /\ \A p \in Range(payments) : p.status \notin {"reconciled", "completed"}
    /\ payments # << >>

\* The rows of a table with one of the given statuses, of a merchant reference.
RowsOf(table, merchant_ref, status) ==
    {r \in Range(table) : r.merchant_id = merchant_ref /\ r.status = status}

\* C12: merchants_summary has one row for each merchant reference that has a
\* reconciled payment, a completed order or a completed payment, and no other
\* row; a row gives the merchant's reconciled payments (count and amount) and
\* its completed orders and completed payments (counts), 0 where it has none.
C12_MerchantsSummary ==
    Report200 =>
        LET summary == response.report.merchants_summary
            refs == {m.id : m \in Range(merchants)}
            listed == {ref \in refs :
                          \/ RowsOf(payments, ref, "reconciled") # {}
                          \/ RowsOf(orders, ref, "completed") # {}
                          \/ RowsOf(payments, ref, "completed") # {}}
        IN  /\ {row.merchant_id : row \in summary} = listed
            /\ Cardinality(summary) = Cardinality(listed)
            /\ \A row \in summary :
                  LET reconciled == RowsOf(payments, row.merchant_id, "reconciled")
                  IN  /\ row.reconciled_count = Cardinality(reconciled)
                      /\ row.reconciled_amount = AmountOf(reconciled)
                      /\ row.unmatched_orders =
                            Cardinality(RowsOf(orders, row.merchant_id, "completed"))
                      /\ row.unmatched_payments =
                            Cardinality(RowsOf(payments, row.merchant_id, "completed"))

\* C12 witness: a report over a store with two merchants, of which one has a
\* reconciled payment and no completed row, and the other a completed order
\* and no payment: two rows, each with zeros.
C12_Witness ==
    /\ Report200
    /\ \E row \in response.report.merchants_summary :
          /\ row.reconciled_count = 1 /\ row.reconciled_amount = 10000
          /\ row.unmatched_orders = 0 /\ row.unmatched_payments = 0
    /\ \E row \in response.report.merchants_summary :
          /\ row.reconciled_count = 0 /\ row.reconciled_amount = 0
          /\ row.unmatched_orders = 1 /\ row.unmatched_payments = 0

\* The last response is a list of discrepancies.
Discrepancies200 == response.op = "ListDiscrepancies" /\ response.code = 200

C14_ViewsAreReadOnly ==
    [][response'.op \in {"BuildReport", "ListDiscrepancies"} =>
          /\ merchants' = merchants
          /\ orders' = orders
          /\ payments' = payments
          /\ transitioned' = transitioned
          /\ sess' = sess]_vars

\* C14 witness: a BuildReport request failed over a store that holds a
\* completed order and a completed payment a run would match.
C14_Witness ==
    /\ response.op = "BuildReport" /\ response.code = 500
    /\ \E o \in Range(orders), p \in Range(payments) :
          o.status = "completed" /\ p.status = "completed" /\ SatisfyRules(o, p)

\* The report of one state of the tables.
ReportOn(st) == ReportOf(Totals(st), MerchantsSummaryOf(st))

\* The completed rows of a table.
CompletedIn(table) == {r \in Range(table) : r.status = "completed"}

\* C15: a report or a list of discrepancies whose request overlapped a run is
\* the one of a single state of the store, the state in which the request
\* began (before the run's commit) or the state in which it ended (after it):
\* never totals of one state with merchant rows of the other, never the orders
\* of one state with the payments of the other.
C15_ViewsSeeOneState ==
    /\ Report200 => response.report \in {ReportOn(before), ReportOn(Store)}
    /\ Discrepancies200 =>
          \E st \in {before, Store} :
              /\ Range(response.unmatched_orders) = CompletedIn(st.orders)
              /\ Range(response.unmatched_payments) = CompletedIn(st.payments)

\* C15 witness: a report was built while a run committed: a payment that was
\* completed when the report's request began is reconciled when it ends.
C15_Witness ==
    /\ Report200
    /\ \E p \in Range(payments), q \in Range(before.payments) :
          p.id = q.id /\ p.status = "reconciled" /\ q.status = "completed"

\* C16: nothing protects two runs that overlap.  No run is refused because the
\* rows it paired were reconciled by another run since it read them, and a run
\* that returns a pair another successful run returned had read both rows as
\* completed and reports them as its own match.
C16_OverlappingRunsUnprotected ==
    /\ response.op = "Reconcile" => response.stage # "stale"
    /\ (Reconciled200 /\ response.doubled > 0) =>
          /\ response.result.matched_count > 0
          /\ \A i \in 1..Len(ReturnedPairs) :
                /\ RowById(before.orders, ReturnedPairs[i].order_id).status = "completed"
                /\ RowById(before.payments, ReturnedPairs[i].payment_id).status
                      = "completed"
                /\ RowById(payments, ReturnedPairs[i].payment_id).status = "reconciled"

\* C16 witness: two runs read the same completed pair before either committed,
\* both succeeded and both returned the pair: their matched_count values add
\* up to more than the payments that are reconciled.
C16_Witness ==
    /\ Reconciled200
    /\ response.doubled > 0
    /\ response.result.matched_count + response.doubled
          > Cardinality({p \in Range(payments) : p.status = "reconciled"})

\* C17: a CreateOrder or a CreatePayment that names a merchant identifier no
\* merchant has answers 404 and leaves the three tables as they were.
C17_UnknownMerchantIsNotFound ==
    [][response'.op \in {"CreateOrder", "CreatePayment"} =>
          \A m \in MerchantIds, k \in MerchantOrderIds :
              (/\ \A x \in Range(merchants) : x.merchant_id # m
               /\ create_order(m, k) \/ create_payment(m, k))
              => /\ response'.code = 404
                 /\ merchants' = merchants
                 /\ orders' = orders
                 /\ payments' = payments]_vars

\* C17 witness: a CreateOrder was answered 404 over a store that holds another
\* merchant, an order and a payment.
C17_Witness ==
    /\ response.op = "CreateOrder" /\ response.code = 404
    /\ merchants # << >> /\ orders # << >> /\ payments # << >>
    /\ Store = before

\* C18: a create whose unique key is already in the store when it is refused
\* or committed answers with a conflict (409 for a merchant, 400 "already
\* exists" for an order or a payment) and leaves the three tables as they
\* were, also when another create of the same key committed in between.
C18_DuplicateIsConflict ==
    [][\A s \in Sessions :
          LET Taken(table, column, value) ==
                  \E r \in Range(table) : r[column] = value
              Refused(codes) ==
                  /\ response'.code \in codes
                  /\ merchants' = merchants
                  /\ orders' = orders
                  /\ payments' = payments
          IN  /\ \A req \in MerchantCreate :
                    (/\ Taken(merchants, "merchant_id", req.merchant_id)
                     /\ create_merchant_query(s, req)) => Refused({409})
              /\ (/\ create_merchant_commit(s)
                  /\ Taken(merchants, "merchant_id", sess[s].request.merchant_id))
                    => Refused({409})
              /\ (/\ create_order_commit(s)
                  /\ Taken(orders, "merchant_order_id",
                           sess[s].request.merchant_order_id))
                    => Refused({409, 400})
              /\ (/\ create_payment_commit(s)
                  /\ Taken(payments, "merchant_order_id",
                           sess[s].request.merchant_order_id))
                    => Refused({409, 400})]_vars

\* No two rows of a table have the same value in a column.
UniqueIn(table, column) ==
    \A i, j \in 1..Len(table) : table[i][column] = table[j][column] => i = j

\* C19: no two merchants share a merchant_id, no two orders and no two
\* payments share a merchant_order_id, and the merchant reference of every
\* order and of every payment is the id of a merchant of the store.
C19_KeysAndReferences ==
    /\ UniqueIn(merchants, "merchant_id")
    /\ UniqueIn(orders, "merchant_order_id")
    /\ UniqueIn(payments, "merchant_order_id")
    /\ \A o \in Range(orders) : \E m \in Range(merchants) : m.id = o.merchant_id
    /\ \A p \in Range(payments) : \E m \in Range(merchants) : m.id = p.merchant_id

\* C19 witness: the second of two overlapping creates of one merchant was
\* refused by the unique constraint, in a store with two merchants, an order
\* and a payment that a run has reconciled.
C19_Witness ==
    /\ response.op = "CreateMerchant" /\ response.stage = "integrity"
    /\ Len(merchants) = 2
    /\ \E o \in Range(orders) : o.status = "reconciled"
    /\ \E p \in Range(payments) : p.status = "reconciled"

\* The result accounts once for each row of a table that the run read as
\* completed: its id is in one pair, or its merchant order id is once in the
\* unmatched list, and the list holds nothing else.
Partitions(read, paired_ids, unmatched) ==
    LET unpaired == {r \in read : r.id \notin paired_ids}
    IN  /\ paired_ids \subseteq {r.id : r \in read}
        /\ Range(unmatched) = {r.merchant_order_id : r \in unpaired}
        /\ Len(unmatched) = Cardinality(unpaired)
        /\ Cardinality(paired_ids) + Len(unmatched) = Cardinality(read)

\* C20: in the result of a successful run matched_count is the length of
\* matched_pairs, and the pairs and the two unmatched lists partition the
\* completed orders and the completed payments the run read.
C20_ResultPartitionsWorkingSet ==
    Reconciled200 =>
        LET result == response.result
            n == Len(result.matched_pairs)
        IN  /\ result.matched_count = n
            /\ Cardinality({result.matched_pairs[i].order_id : i \in 1..n}) = n
            /\ Cardinality({result.matched_pairs[i].payment_id : i \in 1..n}) = n
            /\ Partitions(CompletedIn(before.orders),
                          {result.matched_pairs[i].order_id : i \in 1..n},
                          result.unmatched_orders)
            /\ Partitions(CompletedIn(before.payments),
                          {result.matched_pairs[i].payment_id : i \in 1..n},
                          result.unmatched_payments)

\* C20 witness: a run returned one pair, one unmatched order and one unmatched
\* payment.
C20_Witness ==
    /\ Reconciled200
    /\ response.result.matched_count = 1
    /\ Len(response.result.unmatched_orders) = 1
    /\ Len(response.result.unmatched_payments) = 1

\* The least element of a non-empty set of positions.
Least(positions) == CHOOSE j \in positions : \A k \in positions : j <= k

\* The pairs are those of a first-fit scan of the orders os and the payments
\* ps, both in read order: the pairs follow the read order of their orders,
\* and each order is paired with the first payment in read order that no
\* earlier order of the scan consumed and that satisfies the rules, or with
\* none when there is no such payment.
FirstFit(os, ps, pairs) ==
    LET At(k) == {i \in 1..Len(os) : os[i].id = pairs[k].order_id}
        Consumed(i) == {pairs[k].payment_id :
                            k \in {l \in 1..Len(pairs) : \E h \in At(l) : h < i}}
        Candidates(i) == {j \in 1..Len(ps) :
                            /\ ps[j].id \notin Consumed(i)
                            /\ SatisfyRules(os[i], ps[j])}
        PairsOf(i) == {k \in 1..Len(pairs) : pairs[k].order_id = os[i].id}
    IN  /\ \A k \in 1..Len(pairs) : At(k) # {}
        /\ \A k, l \in 1..Len(pairs) :
              k < l => \A h \in At(k), g \in At(l) : h < g
        /\ \A i \in 1..Len(os) :
              IF Candidates(i) = {}
              THEN PairsOf(i) = {}
              ELSE /\ Cardinality(PairsOf(i)) = 1
                   /\ \A k \in PairsOf(i) :
                         LET p == ps[Least(Candidates(i))]
                         IN  pairs[k] = [order_id |-> os[i].id,
                                         payment_id |-> p.id,
                                         merchant_order_id |-> os[i].merchant_order_id,
                                         amount |-> os[i].amount]

\* The rows of a query as the run read them, whatever status the matching
\* loop has set on the objects since.
AsRead(objects) == [i \in 1..Len(objects) |-> [objects[i] EXCEPT !.status = "completed"]]

\* C21: the pairs a run holds once it has read its orders and payments, before
\* and after its commit, are those of a first-fit scan in read order (orders
\* in their read order, each with the first payment in read order not yet
\* consumed that satisfies rules 2-4, listed in the order found), the objects
\* being the completed rows of the store the run read; and the matched_pairs
\* a successful run returns are those of a first-fit scan of those rows.
C21_FirstFitInReadOrder ==
    /\ \A s \in Sessions :
          pc[s] \in {"matched", "committed"} =>
             /\ AsRead(sess[s].orders)
                   \in ReadOrders(WithStatus(sess[s].before.orders, "completed"))
             /\ AsRead(sess[s].payments)
                   \in ReadOrders(WithStatus(sess[s].before.payments, "completed"))
             /\ FirstFit(sess[s].orders, sess[s].payments, sess[s].matched_pairs)
    /\ Reconciled200 =>
          \E os \in ReadOrders(WithStatus(before.orders, "completed")),
             ps \in ReadOrders(WithStatus(before.payments, "completed")) :
                FirstFit(os, ps, ReturnedPairs)

\* C21 witness: a committed run read its two orders in another order than
\* that of their ids, scanned past a payment that did not fit the first order,
\* and holds the two pairs in the read order of the orders.
C21_Witness ==
    \E s \in Sessions :
        /\ pc[s] = "committed"
        /\ Len(sess[s].matched_pairs) = 2
        /\ sess[s].orders[1].id > sess[s].orders[2].id
        /\ sess[s].matched_pairs[1].order_id = sess[s].orders[1].id
        /\ sess[s].matched_pairs[1].payment_id = sess[s].payments[2].id
        /\ sess[s].matched_pairs[2].payment_id = sess[s].payments[1].id

\* Two runs of the matching loop over the rows of the store st have the same
\* outcome: the same set of pairs, the same sets of unmatched merchant order
\* ids, the same status for every object, and the same tables once their
\* updates are flushed.
SameOutcome(st, run, other) ==
    /\ Range(run.matched_pairs) = Range(other.matched_pairs)
    /\ Len(run.matched_pairs) = Len(other.matched_pairs)
    /\ Range(Unmatched(run.orders, run.matched_order_ids))
         = Range(Unmatched(other.orders, other.matched_order_ids))
    /\ Range(Unmatched(run.payments, run.matched_payment_ids))
         = Range(Unmatched(other.payments, other.matched_payment_ids))
    /\ Range(run.orders) = Range(other.orders)
    /\ Range(run.payments) = Range(other.payments)
    /\ Flush(st.orders, run.orders) = Flush(st.orders, other.orders)
    /\ Flush(st.payments, run.payments) = Flush(st.payments, other.payments)

\* C22: in the store a run read, each completed order has at most one
\* completed payment that satisfies the rules, and the matching loop has the
\* same outcome as the run's for every other order in which the two queries
\* could have returned their rows.
C22_ReadOrderIndependence ==
    \A s \in Sessions :
        pc[s] = "matched" =>
           LET read_orders == WithStatus(sess[s].before.orders, "completed")
               read_payments == WithStatus(sess[s].before.payments, "completed")
           IN  /\ \A o \in Range(read_orders) :
                     Cardinality({p \in Range(read_payments) : SatisfyRules(o, p)}) <= 1
               /\ \A os \in ReadOrders(read_orders), ps \in ReadOrders(read_payments) :
                     SameOutcome(sess[s].before,
                                 MatchOrders([NoObjects EXCEPT !.orders = os,
                                                               !.payments = ps], 1),
                                 sess[s])

\* C22 witness: a run read two orders in the order of their ids and two
\* payments in the opposite order, and matched one pair: the other read orders
\* list the same pair and the same unmatched order and payment.
C22_Witness ==
    \E s \in Sessions :
        /\ pc[s] = "matched"
        /\ Len(sess[s].orders) = 2
        /\ Len(sess[s].payments) = 2
        /\ sess[s].orders[1].id < sess[s].orders[2].id
        /\ sess[s].payments[1].id > sess[s].payments[2].id
        /\ Len(sess[s].matched_pairs) = 1

\* The reconciled rows of a table.
ReconciledIn(table) == {r \in Range(table) : r.status = "reconciled"}

\* An order and a payment carry the same merchant order id, the same merchant
\* reference and the same amount.
Counterparts(o, p) ==
    /\ o.merchant_order_id = p.merchant_order_id
    /\ o.merchant_id = p.merchant_id
    /\ o.amount = p.amount

\* C23: in every state reconciled records come in pairs: there are as many
\* reconciled orders as reconciled payments, every reconciled order has
\* exactly one reconciled payment with the same merchant order id, merchant
\* reference and amount, and conversely, and the report's
\* total_reconciled_amount, summed over the payments, is the sum of the amounts
\* of the reconciled orders.
C23_ReconciledComeInPairs ==
    LET ros == ReconciledIn(orders)
        rps == ReconciledIn(payments)
    IN  /\ Cardinality(ros) = Cardinality(rps)
        /\ \A o \in ros : Cardinality({p \in rps : Counterparts(o, p)}) = 1
        /\ \A p \in rps : Cardinality({o \in ros : Counterparts(o, p)}) = 1
        /\ Report.total_reconciled_amount = AmountOf(ros)

====
